---- MODULE Spec2Model ----
(***************************************************************************)
(* A model of the "new Yale" sparse storage of NMatrix                     *)
(* (ext/nmatrix/storage/yale.cpp).  A storage is a record                  *)
(*   [rows, cols, capacity, ndnz, ija, a]                                  *)
(* whose two parallel arrays ija and a are functions on 0..capacity-1.     *)
(* A slot that was allocated but never written holds Uninit; a slot of the *)
(* used region [0, size) that the code left unwritten is resolved to one   *)
(* of the values JunkIdx / JunkVal, nondeterministically.                  *)
(***************************************************************************)
EXTENDS Integers, Sequences, FiniteSets, TLC

VARIABLES pc, s, t, dense, ret, hist, inp, out

vars == <<pc, s, t, dense, ret, hist, inp, out>>

(***************************************************************************)
(* Bounds of the model.                                                    *)
(***************************************************************************)
MaxCells == 6
MaxVal == 1
MaxInitCap == 4
MaxSets == 3

Vals == 0..MaxVal

\* the content of a slot that was allocated (ALLOC_N) and never written
Uninit == -1000

\* what an indeterminate slot can turn out to hold: for an index a small column, a
\* second one, and a number beyond every column of the model; for a value zero or not
JunkIdx == {0, 1, 9}
JunkVal == {0, 1}

None == [rows |-> 0, cols |-> 0, capacity |-> 0, ndnz |-> 0, ija |-> <<>>, a |-> <<>>]

Min(x, y) == IF x < y THEN x ELSE y
Max(x, y) == IF x > y THEN x ELSE y

(***************************************************************************)
(* Lifecycle                                                               *)
(***************************************************************************)
max_size(st) ==
  st.rows * st.cols + 1 + (IF st.rows > st.cols THEN st.rows - st.cols ELSE 0)

\* yale.h (not part of the sources at hand): the smallest capacity a storage gets
NM_YALE_MINIMUM(st) == st.rows * 2 + 1

\* yale.h (not part of the sources at hand): capacity * GROWTH_CONSTANT, truncated
GrowCapacity(c) == (c * 3) \div 2

alloc(rows, cols) ==
  [rows |-> rows, cols |-> cols, capacity |-> 0, ndnz |-> 0, ija |-> <<>>, a |-> <<>>]

nm_yale_storage_create(rows, cols, init_capacity) ==
  LET st0 == alloc(rows, cols)
      max_capacity == max_size(st0)
      cap == IF init_capacity < NM_YALE_MINIMUM(st0) THEN NM_YALE_MINIMUM(st0)
             ELSE IF init_capacity > max_capacity THEN max_capacity
             ELSE init_capacity
  IN  [st0 EXCEPT !.capacity = cap,
                  !.ija = [k \in 0..cap-1 |-> Uninit],
                  !.a   = [k \in 0..cap-1 |-> Uninit]]

\* yale.h (not part of the sources at hand): zero the diagonal and the sentinel slot
clear_diagonal_and_zero(st) ==
  [st EXCEPT !.a = [k \in DOMAIN st.a |-> IF k <= st.rows THEN 0 ELSE st.a[k]]]

init(st) ==
  LET IA_INIT == st.rows + 1
  IN  clear_diagonal_and_zero(
        [st EXCEPT !.ija = [k \in DOMAIN st.ija |-> IF k < IA_INIT THEN IA_INIT ELSE st.ija[k]]])

get_size(st) == st.ija[st.rows]

(***************************************************************************)
(* Index search                                                            *)
(***************************************************************************)
RECURSIVE binary_search(_, _, _, _)
binary_search(st, left, right, key) ==
  IF left > right THEN -1
  ELSE LET mid == (left + right) \div 2
           mid_j == st.ija[mid]
       IN  IF mid_j = key THEN mid
           ELSE IF mid_j > key THEN binary_search(st, left, mid - 1, key)
           ELSE binary_search(st, mid + 1, right, key)

RECURSIVE insert_search(_, _, _, _)
insert_search(st, left, right, key) ==
  IF left > right THEN [pos |-> left, found |-> FALSE]
  ELSE LET mid == (left + right) \div 2
           mid_j == st.ija[mid]
       IN  IF mid_j = key THEN [pos |-> mid, found |-> TRUE]
           ELSE IF mid_j > key THEN insert_search(st, left, mid - 1, key)
           ELSE insert_search(st, mid + 1, right, key)

(***************************************************************************)
(* ref: the slot a pair of coordinates reads, and its value                *)
(***************************************************************************)
ref(st, r, c) ==
  IF r = c THEN r
  ELSE IF st.ija[r] = st.ija[r+1] THEN st.rows
  ELSE LET pos == binary_search(st, st.ija[r], st.ija[r+1] - 1, c)
       IN  IF pos # -1 /\ st.ija[pos] = c THEN pos ELSE st.rows

RefVal(st, r, c) == st.a[ref(st, r, c)]

(***************************************************************************)
(* Row store: insertion and resize                                         *)
(***************************************************************************)
\* a read of slot k of an array of the given capacity: past the allocation the
\* content is indeterminate
At(arr, cap, k) == IF k >= 0 /\ k < cap THEN arr[k] ELSE Uninit

\* vector_insert_resize that allocates the larger arrays and forgets s->capacity
vector_insert_resize_stale_capacity(st, current_size, pos, n, struct_only) ==
  LET new_capacity == Max(Min(GrowCapacity(st.capacity), max_size(st)), current_size + n)
  IN  [ok |-> TRUE, oob |-> FALSE,
       st |-> [st EXCEPT
                 !.ija = [k \in 0..new_capacity-1 |-> At(st.ija, st.capacity, IF k < pos THEN k ELSE k - n)],
                 !.a   = [k \in 0..new_capacity-1 |-> At(st.a, st.capacity, IF k < pos THEN k ELSE k - n)]]]

\* vector_insert_resize: ok = FALSE is the rb_eNoMemError raise (nothing changed yet);
\* oob = TRUE when the copy loops leave the old or the new allocation
vector_insert_resize(st, current_size, pos, n, struct_only) ==
  LET grown        == GrowCapacity(st.capacity)
      max_capacity == max_size(st)
      capped       == IF grown > max_capacity THEN max_capacity ELSE grown
      raised       == grown > max_capacity /\ current_size + n > max_capacity
      new_capacity == IF capped < current_size + n THEN current_size + n ELSE capped
      hi           == current_size - pos + n - 1
      copied(k)    == k < pos \/ (k - n >= pos /\ k - n < hi)
      from(k)      == IF k < pos THEN k ELSE k - n
      new_ija      == [k \in 0..new_capacity-1 |->
                         IF copied(k) THEN At(st.ija, st.capacity, from(k)) ELSE Uninit]
      new_a        == [k \in 0..new_capacity-1 |->
                         IF copied(k) /\ ~struct_only THEN At(st.a, st.capacity, from(k))
                         ELSE Uninit]
      oob          == \/ pos > st.capacity
                      \/ pos > new_capacity
                      \/ (hi > pos /\ (hi - 1 >= st.capacity \/ hi - 1 + n >= new_capacity))
  IN  IF raised THEN [ok |-> FALSE, oob |-> FALSE, st |-> st]
      ELSE [ok |-> TRUE, oob |-> oob,
            st |-> [st EXCEPT !.capacity = new_capacity, !.ija = new_ija, !.a = new_a]]

\* vector_insert that writes the new pairs without moving the tail out of the way
vector_insert_no_shift(st, pos, j, val, n, struct_only) ==
  [ret |-> "i",
   st  |-> [st EXCEPT
             !.ija = [k \in DOMAIN st.ija |->
                        IF k >= pos /\ k < pos + n THEN j[k - pos + 1] ELSE st.ija[k]],
             !.a   = [k \in DOMAIN st.a |->
                        IF k >= pos /\ k < pos + n THEN val[k - pos + 1] ELSE st.a[k]]]]

\* vector_insert: j and val are sequences of length n (val is unused when struct_only).
\* ret is "i", or the raise that ended the call ("argerr", "nomem"), or "crash" when the
\* call left the allocation
vector_insert(st, pos, j, val, n, struct_only) ==
  IF pos < st.rows THEN [ret |-> "argerr", st |-> st]
  ELSE
    LET size == get_size(st)
    IN  IF size + n > st.capacity
        THEN LET rs == vector_insert_resize(st, size, pos, n, struct_only)
                 g  == rs.st
             IN  IF ~rs.ok THEN [ret |-> "nomem", st |-> st]
                 ELSE IF rs.oob \/ pos + n > g.capacity THEN [ret |-> "crash", st |-> st]
                 ELSE [ret |-> "i",
                       st  |-> [g EXCEPT
                                 !.ija = [k \in DOMAIN g.ija |->
                                            IF k >= pos /\ k < pos + n THEN j[k - pos + 1]
                                            ELSE g.ija[k]],
                                 !.a   = [k \in DOMAIN g.a |->
                                            IF k >= pos /\ k < pos + n /\ ~struct_only
                                            THEN val[k - pos + 1] ELSE g.a[k]]]]
        ELSE IF pos > size THEN [ret |-> "crash", st |-> st]
        ELSE [ret |-> "i",
              st  |-> [st EXCEPT
                        !.ija = [k \in DOMAIN st.ija |->
                                   IF k >= pos /\ k < pos + n THEN j[k - pos + 1]
                                   ELSE IF k >= pos + n /\ k < size + n THEN st.ija[k - n]
                                   ELSE st.ija[k]],
                        !.a   = [k \in DOMAIN st.a |->
                                   IF struct_only THEN st.a[k]
                                   ELSE IF k >= pos /\ k < pos + n THEN val[k - pos + 1]
                                   ELSE IF k >= pos + n /\ k < size + n THEN st.a[k - n]
                                   ELSE st.a[k]]]]

\* a faulty variant of increment_ia_after: row i's own pointer is bumped too
increment_ia_after_own_row(st, ija_size, i, n) ==
  [st EXCEPT !.ija = [k \in DOMAIN st.ija |->
                        IF k >= i /\ k <= ija_size THEN st.ija[k] + n ELSE st.ija[k]]]

increment_ia_after(st, ija_size, i, n) ==
  [st EXCEPT !.ija = [k \in DOMAIN st.ija |->
                        IF k >= i + 1 /\ k <= ija_size THEN st.ija[k] + n ELSE st.ija[k]]]

\* the storages a storage with indeterminate slots inside its used region can be
Resolve(st) ==
  LET used == 0..(Min(get_size(st), st.capacity) - 1)
      ui   == {k \in used : st.ija[k] = Uninit}
      ua   == {k \in used : st.a[k] = Uninit}
  IN  { [st EXCEPT !.ija = [k \in DOMAIN st.ija |-> IF k \in ui THEN f[k] ELSE st.ija[k]],
                   !.a   = [k \in DOMAIN st.a   |-> IF k \in ua THEN g[k] ELSE st.a[k]]]
        : f \in [ui -> JunkIdx], g \in [ua -> JunkVal] }

\* the tail of set: insert one pair at pos, bump the row pointers, count it
SetInsert(st, pos, r, c, v) ==
  LET vi == vector_insert(st, pos, <<c>>, <<v>>, 1, FALSE)
  IN  IF vi.ret # "i" THEN {[ret |-> vi.ret, st |-> st]}
      ELSE { [ret |-> "i", st |-> x] :
             x \in Resolve([increment_ia_after(vi.st, st.rows, r, 1) EXCEPT !.ndnz = @ + 1]) }

\* a faulty variant of set: the stored value is also written to the slot after the last
\* diagonal value
set_through_sentinel(st, r, c, v) ==
  IF r = c THEN {[ret |-> "r", st |-> [st EXCEPT !.a[r] = v, !.a[st.rows] = v]]}
  ELSE IF st.ija[r] = st.ija[r+1] THEN SetInsert(st, st.ija[r], r, c, v)
  ELSE LET sr == insert_search(st, st.ija[r], st.ija[r+1] - 1, c)
       IN  IF sr.found
           THEN {[ret |-> "r", st |-> [st EXCEPT !.ija[sr.pos] = c, !.a[sr.pos] = v]]}
           ELSE SetInsert(st, sr.pos, r, c, v)

\* set(row, col, value): the set of outcomes [ret, st]
set(st, r, c, v) ==
  IF r = c THEN {[ret |-> "r", st |-> [st EXCEPT !.a[r] = v]]}
  ELSE IF st.ija[r] = st.ija[r+1] THEN SetInsert(st, st.ija[r], r, c, v)
  ELSE LET sr == insert_search(st, st.ija[r], st.ija[r+1] - 1, c)
       IN  IF sr.found
           THEN {[ret |-> "r", st |-> [st EXCEPT !.ija[sr.pos] = c, !.a[sr.pos] = v]]}
           ELSE SetInsert(st, sr.pos, r, c, v)

(***************************************************************************)
(* Spec: a storage is created and init-ed, then set is called any number   *)
(* of times with in-range coordinates.  dense records the value last set   *)
(* to each cell.                                                           *)
(***************************************************************************)
Cells(rows, cols) == (0..rows-1) \X (0..cols-1)

\* the shapes (rows, cols) of at most MaxCells cells
Shapes == {x \in (1..MaxCells) \X (1..MaxCells) : x[1] * x[2] <= MaxCells}

Init ==
  /\ pc = "set"
  /\ \E shape \in Shapes, init_capacity \in 0..MaxInitCap :
       /\ s = init(nm_yale_storage_create(shape[1], shape[2], init_capacity))
       /\ dense = [x \in Cells(shape[1], shape[2]) |-> 0]
       /\ inp = [capacity |-> nm_yale_storage_create(shape[1], shape[2], init_capacity).capacity]
  /\ t = None
  /\ ret = "none"
  /\ hist = 0
  /\ out = <<>>

\* one call of set; hist counts the calls made
Set ==
  /\ pc = "set"
  /\ hist < MaxSets
  /\ \E r \in 0..s.rows-1, c \in 0..s.cols-1, v \in Vals :
       \E o \in set(s, r, c, v) :
         /\ s' = o.st
         /\ ret' = o.ret
         /\ dense' = IF o.ret \in {"r", "i"} THEN [dense EXCEPT ![<<r, c>>] = v] ELSE dense
  /\ hist' = hist + 1
  /\ UNCHANGED <<pc, t, inp, out>>

Next == Set

Spec == Init /\ [][Next]_vars

\* C1: after any sequence of in-range set calls, ref reads in every cell the value last
\* set there, and zero where nothing was set
C1_RefReadsLastSet ==
  pc = "set" => \A x \in DOMAIN dense : RefVal(s, x[1], x[2]) = dense[x]

\* C3: capacity never decreases from one set call to the next, and capacity >= size
\* after every call
C3_CapacityMonotone ==
  [][pc = "set" => (s'.capacity >= s.capacity /\ s'.capacity >= get_size(s'))]_vars

\* a set call that had to grow the arrays has completed
C3_Witness == pc = "set" /\ ret = "i" /\ s.capacity > inp.capacity /\ s.rows = 2

(***************************************************************************)
(* PermSpec: two empty 3x3 storages x (in s) and y (in t) each receive the *)
(* three calls set(1,1,5), set(0,2,3), set(2,0,7), each in an order of its *)
(* own; hist holds the two orders.                                         *)
(***************************************************************************)
PermCalls == << <<1, 1, 5>>, <<0, 2, 3>>, <<2, 0, 7>> >>

Range(q) == {q[k] : k \in DOMAIN q}

PermInit ==
  /\ pc = "perm"
  /\ \E cx \in 0..MaxInitCap, cy \in 0..MaxInitCap :
       /\ s = init(nm_yale_storage_create(3, 3, cx))
       /\ t = init(nm_yale_storage_create(3, 3, cy))
  /\ hist = << <<>>, <<>> >>
  /\ dense = <<>>
  /\ ret = "none"
  /\ inp = <<>>
  /\ out = <<>>

PermSetX ==
  /\ pc = "perm"
  /\ \E k \in DOMAIN PermCalls \ Range(hist[1]) :
       \E o \in set(s, PermCalls[k][1], PermCalls[k][2], PermCalls[k][3]) :
         /\ s' = o.st
         /\ ret' = o.ret
         /\ hist' = <<Append(hist[1], k), hist[2]>>
  /\ UNCHANGED <<pc, t, dense, inp, out>>

PermSetY ==
  /\ pc = "perm"
  /\ \E k \in DOMAIN PermCalls \ Range(hist[2]) :
       \E o \in set(t, PermCalls[k][1], PermCalls[k][2], PermCalls[k][3]) :
         /\ t' = o.st
         /\ ret' = o.ret
         /\ hist' = <<hist[1], Append(hist[2], k)>>
  /\ UNCHANGED <<pc, s, dense, inp, out>>

PermNext == PermSetX \/ PermSetY

PermSpec == PermInit /\ [][PermNext]_vars

PermDone == pc = "perm" /\ Len(hist[1]) = 3 /\ Len(hist[2]) = 3

\* C2: whatever the two orders of the three set calls, the two 3x3 storages read the
\* same through ref in all 9 cells
C2_OrderIndependent ==
  PermDone => \A x \in Cells(3, 3) : RefVal(s, x[1], x[2]) = RefVal(t, x[1], x[2])

\* both storages are complete and were filled in different orders
C2_Witness == PermDone /\ hist[1] = <<1, 2, 3>> /\ hist[2] = <<3, 2, 1>>

(***************************************************************************)
(* Format bridge: create_from_old_yale                                     *)
(***************************************************************************)
\* the walk of lines 180-205: OldYaleRow starts output row i at offset pp,
\* OldYaleCols copies the entries of input row i from input offset p
RECURSIVE OldYaleRow(_, _, _, _, _, _, _)
RECURSIVE OldYaleCols(_, _, _, _, _, _, _)

\* OldYaleCols that keeps counting a diagonal entry as an off-diagonal slot (the --pp
\* of line 191 left out)
OldYaleColsKeepSlot(st, ir, jr, ar, i, p, pp) ==
  IF p < ir[i+1]
  THEN IF i = jr[p]
       THEN OldYaleCols([st EXCEPT !.a[i] = ar[p]], ir, jr, ar, i, p + 1, pp + 1)
       ELSE OldYaleCols([st EXCEPT !.ija[pp] = jr[p], !.a[pp] = ar[p]],
                        ir, jr, ar, i, p + 1, pp + 1)
  ELSE OldYaleRow(st, ir, jr, ar, i + 1, p, pp)

OldYaleRow(st, ir, jr, ar, i, p, pp) ==
  IF i < st.rows
  THEN OldYaleCols([st EXCEPT !.ija[i] = pp], ir, jr, ar, i, p, pp)
  ELSE [st EXCEPT !.ija[i] = pp, !.a[i] = 0]

OldYaleCols(st, ir, jr, ar, i, p, pp) ==
  IF p < ir[i+1]
  THEN IF i = jr[p]
       THEN OldYaleCols([st EXCEPT !.a[i] = ar[p]], ir, jr, ar, i, p + 1, pp)
       ELSE OldYaleCols([st EXCEPT !.ija[pp] = jr[p], !.a[pp] = ar[p]],
                        ir, jr, ar, i, p + 1, pp + 1)
  ELSE OldYaleRow(st, ir, jr, ar, i + 1, p, pp)

\* ir, jr, ar are the old Yale IA, JA and A arrays (functions from 0)
create_from_old_yale(rows, cols, ir, jr, ar) ==
  LET ndnz == Cardinality({x \in (0..rows-1) \X DOMAIN jr :
                             x[2] >= ir[x[1]] /\ x[2] < ir[x[1]+1] /\ x[1] # jr[x[2]]})
      cap  == rows + ndnz + 1
      st0  == [alloc(rows, cols) EXCEPT
                 !.capacity = cap,
                 !.ndnz = ndnz,
                 !.ija = [k \in 0..cap-1 |-> Uninit],
                 !.a   = [k \in 0..cap-1 |-> IF k < rows THEN 0 ELSE Uninit]]
  IN  OldYaleRow(st0, ir, jr, ar, 0, ir[0], rows + 1)

(***************************************************************************)
(* TripleSpec: a valid compressed-row triple (columns ascending in every   *)
(* row, no off-diagonal zero) is handed to create_from_old_yale.           *)
(***************************************************************************)
Absent == 0 - 1

\* the cells of a shape in row-major order, as a sequence
CellSeq(rows, cols) == [k \in 1..(rows * cols) |-> <<(k - 1) \div cols, (k - 1) % cols>>]

RECURSIVE SelectCells(_, _)
SelectCells(q, lay) ==
  IF q = <<>> THEN <<>>
  ELSE IF lay[Head(q)] = Absent THEN SelectCells(Tail(q), lay)
       ELSE <<Head(q)>> \o SelectCells(Tail(q), lay)

\* the triple that stores the present cells of lay, row by row, columns ascending
TripleOf(rows, cols, lay) ==
  LET q == SelectCells(CellSeq(rows, cols), lay)
  IN  [rows |-> rows, cols |-> cols,
       ia   |-> [i \in 0..rows |-> Cardinality({k \in DOMAIN q : q[k][1] < i})],
       ja   |-> [k \in 0..Len(q)-1 |-> q[k+1][2]],
       a    |-> [k \in 0..Len(q)-1 |-> lay[q[k+1]]]]

\* a cell is absent or holds a value; an off-diagonal cell holds no zero
TripleLayouts(rows, cols) ==
  {lay \in [Cells(rows, cols) -> {Absent} \cup Vals] :
     \A x \in Cells(rows, cols) : x[1] # x[2] => lay[x] # 0}

TripleInit ==
  /\ pc = "triple"
  /\ \E shape \in Shapes : \E lay \in TripleLayouts(shape[1], shape[2]) :
       inp = TripleOf(shape[1], shape[2], lay)
  /\ s = None
  /\ t = None
  /\ dense = <<>>
  /\ ret = "none"
  /\ hist = 0
  /\ out = <<>>

FromOldYale ==
  /\ pc = "triple"
  /\ s' = create_from_old_yale(inp.rows, inp.cols, inp.ia, inp.ja, inp.a)
  /\ pc' = "built"
  /\ UNCHANGED <<t, dense, ret, hist, inp, out>>

TripleNext == FromOldYale

TripleSpec == TripleInit /\ [][TripleNext]_vars

\* the value the triple assigns to cell (i, j), zero when it does not mention the cell
TripleVal(tr, i, j) ==
  LET ps == {p \in DOMAIN tr.ja : p >= tr.ia[i] /\ p < tr.ia[i+1] /\ tr.ja[p] = j}
  IN  IF ps = {} THEN 0 ELSE tr.a[CHOOSE p \in ps : TRUE]

TripleNdnz(tr) ==
  Cardinality({x \in (0..tr.rows-1) \X DOMAIN tr.ja :
                 x[2] >= tr.ia[x[1]] /\ x[2] < tr.ia[x[1]+1] /\ tr.ja[x[2]] # x[1]})

\* C4: the storage built from a valid triple reads through ref, in every cell, the value
\* the triple assigns to it and zero elsewhere, and has size = capacity = rows + ndnz + 1
C4_OldYaleRoundTrip ==
  pc = "built" =>
    /\ \A x \in Cells(inp.rows, inp.cols) : RefVal(s, x[1], x[2]) = TripleVal(inp, x[1], x[2])
    /\ get_size(s) = s.capacity
    /\ s.capacity = inp.rows + TripleNdnz(inp) + 1
    /\ s.ndnz = TripleNdnz(inp)

\* a built 2x3 storage whose triple gives row 0 a diagonal entry between two others and
\* leaves the diagonal of row 1 out
C4_Witness ==
  /\ pc = "built"
  /\ inp.rows = 2 /\ inp.cols = 3
  /\ inp.ia = (0 :> 0 @@ 1 :> 2 @@ 2 :> 4)
  /\ inp.ja = (0 :> 0 @@ 1 :> 2 @@ 2 :> 0 @@ 3 :> 2)
  /\ s.a[0] = 1 /\ s.a[1] = 0 /\ get_size(s) = 6

(***************************************************************************)
(* Well-formed operands: the storage that set builds, in row-major order,  *)
(* from a layout (a cell of the diagonal holds a value, any other cell is  *)
(* absent or holds a value, zero included).  The capacity is the largest   *)
(* one, so no call grows the arrays.                                       *)
(***************************************************************************)
RECURSIVE SetAll(_, _, _)
SetAll(st, q, lay) ==
  IF q = <<>> THEN st
  ELSE SetAll((CHOOSE o \in set(st, Head(q)[1], Head(q)[2], lay[Head(q)]) : TRUE).st,
              Tail(q), lay)

Stored(rows, cols, lay) ==
  SetAll(init(nm_yale_storage_create(rows, cols, rows * cols + rows + 1)),
         SelectCells(CellSeq(rows, cols), lay), lay)

Layouts(rows, cols) ==
  {lay \in [Cells(rows, cols) -> {Absent} \cup Vals] :
     \A x \in Cells(rows, cols) : x[1] = x[2] => lay[x] # Absent}

BinRows == 2
BinCols == 3

BinShapes == (1..BinRows) \X (1..BinCols)

\* every well-formed storage of a shape
Operands(shape) == {Stored(shape[1], shape[2], lay) : lay \in Layouts(shape[1], shape[2])}

(***************************************************************************)
(* Equality engine                                                         *)
(***************************************************************************)
ndrow_is_empty(st, ija, ija_next) ==
  ija = ija_next \/ \A k \in ija..(ija_next - 1) : st.a[k] = 0

\* the values a read of a[k] can give: past the used slots the content is indeterminate
ReadA(st, k) == IF k < Min(get_size(st), st.capacity) THEN {st.a[k]} ELSE JunkVal

\* iterations of the merge loop after which a run counts as not terminating
LoopFuel == 12

\* the while loop of ndrow_eqeq_ndrow from the state c; oob records a read of a[] at a
\* position outside the row's range
RECURSIVE EqLoop(_, _, _, _, _, _)
EqLoop(l, r, l_ija_next, r_ija_next, c, fuel) ==
  IF c.l_no_more /\ c.r_no_more THEN {[res |-> "true", oob |-> c.oob]}
  ELSE IF fuel = 0 THEN {[res |-> "hang", oob |-> c.oob]}
  ELSE IF c.l_ja = c.r_ja
  THEN LET oob == c.oob \/ c.l_ija >= l_ija_next \/ c.r_ija >= r_ija_next
           lmore == c.l_ija + 1 < l_ija_next
           rmore == c.r_ija + 1 < r_ija_next
           l_ja == IF lmore THEN l.ija[c.l_ija + 1] ELSE c.l_ja
           r_ja == IF rmore THEN r.ija[c.r_ija + 1] ELSE c.r_ja
           d == [c EXCEPT !.l_ija = @ + 1, !.r_ija = @ + 1, !.l_ja = l_ja, !.r_ja = r_ja,
                          !.l_no_more = IF lmore THEN @ ELSE TRUE,
                          !.r_no_more = IF rmore THEN @ ELSE TRUE,
                          !.ja = Min(l_ja, r_ja), !.oob = oob]
       IN  UNION { IF x[1] # x[2] THEN {[res |-> "false", oob |-> oob]}
                   ELSE EqLoop(l, r, l_ija_next, r_ija_next, d, fuel - 1)
                   : x \in ReadA(r, c.r_ija) \X ReadA(l, c.l_ija) }
  ELSE IF c.l_no_more \/ c.ja < c.l_ja
  THEN LET oob == c.oob \/ c.r_ija >= r_ija_next
           rmore == c.r_ija + 1 < r_ija_next
           r_ja == IF rmore THEN r.ija[c.r_ija + 1] ELSE c.r_ja
           d == [c EXCEPT !.r_ija = @ + 1, !.r_ja = r_ja,
                          !.ja = IF rmore THEN Min(c.l_ja, r_ja) ELSE @,
                          !.l_no_more = IF rmore THEN @ ELSE TRUE,
                          !.oob = oob]
       IN  UNION { IF v # 0 THEN {[res |-> "false", oob |-> oob]}
                   ELSE EqLoop(l, r, l_ija_next, r_ija_next, d, fuel - 1)
                   : v \in ReadA(r, c.r_ija) }
  ELSE IF c.r_no_more \/ c.ja < c.r_ja
  THEN LET oob == c.oob \/ c.l_ija >= l_ija_next
           lmore == c.l_ija + 1 < l_ija_next
           l_ja == IF lmore THEN l.ija[c.l_ija + 1] ELSE c.l_ja
           d == [c EXCEPT !.l_ija = @ + 1, !.l_ja = l_ja,
                          !.ja = IF lmore THEN Min(l_ja, c.r_ja) ELSE @,
                          !.l_no_more = IF lmore THEN @ ELSE TRUE,
                          !.oob = oob]
       IN  UNION { IF v # 0 THEN {[res |-> "false", oob |-> oob]}
                   ELSE EqLoop(l, r, l_ija_next, r_ija_next, d, fuel - 1)
                   : v \in ReadA(l, c.l_ija) }
  ELSE {[res |-> "hang", oob |-> c.oob]}

ndrow_eqeq_ndrow(l, r, l_ija, l_ija_next, r_ija, r_ija_next) ==
  EqLoop(l, r, l_ija_next, r_ija_next,
         [l_ija |-> l_ija, r_ija |-> r_ija,
          l_ja |-> l.ija[l_ija], r_ja |-> r.ija[r_ija],
          ja |-> Min(l.ija[l_ija], r.ija[r_ija]),
          l_no_more |-> FALSE, r_no_more |-> FALSE, oob |-> FALSE],
         LoopFuel)

\* the row loop of eqeq from row i
RECURSIVE EqRows(_, _, _, _)
EqRows(left, right, i, oob) ==
  IF i >= left.rows THEN {[res |-> "true", oob |-> oob]}
  ELSE LET l_ija == left.ija[i]
           l_ija_next == left.ija[i+1]
           r_ija == right.ija[i]
           r_ija_next == right.ija[i+1]
       IN  IF ndrow_is_empty(left, l_ija, l_ija_next)
           THEN IF ~ndrow_is_empty(right, r_ija, r_ija_next)
                THEN {[res |-> "false", oob |-> oob]}
                ELSE EqRows(left, right, i + 1, oob)
           ELSE IF ndrow_is_empty(right, r_ija, r_ija_next)
           THEN {[res |-> "false", oob |-> oob]}
           ELSE UNION { IF o.res = "true" THEN EqRows(left, right, i + 1, oob \/ o.oob)
                        ELSE {[res |-> o.res, oob |-> oob \/ o.oob]}
                        : o \in ndrow_eqeq_ndrow(left, right, l_ija, l_ija_next, r_ija, r_ija_next) }

\* eqeq: the set of its outcomes [res, oob]; res is "true", "false" or "hang"
eqeq(left, right) ==
  IF \E index \in 0..left.rows-1 : left.a[index] # right.a[index]
  THEN {[res |-> "false", oob |-> FALSE]}
  ELSE EqRows(left, right, 0, FALSE)

(***************************************************************************)
(* EqSpec: two well-formed storages of one shape are compared.             *)
(***************************************************************************)
EqInit ==
  /\ pc = "eq"
  /\ \E shape \in BinShapes :
       \E p \in Operands(shape) \X Operands(shape) : s = p[1] /\ t = p[2]
  /\ dense = <<>>
  /\ ret = "none"
  /\ hist = 0
  /\ inp = <<>>
  /\ out = <<>>

Eqeq ==
  /\ pc = "eq"
  /\ \E o \in eqeq(s, t) : out' = o
  /\ pc' = "eqdone"
  /\ UNCHANGED <<s, t, dense, ret, hist, inp>>

EqNext == Eqeq

EqSpec == EqInit /\ [][EqNext]_vars

SameCells(l, r) == \A x \in Cells(l.rows, l.cols) : RefVal(l, x[1], x[2]) = RefVal(r, x[1], x[2])

\* C5: eqeq returns false whenever at least one cell differs between the two storages
C5_EqeqSensitive == pc = "eqdone" /\ ~SameCells(s, t) => out.res = "false"

\* C6: eqeq returns true whenever all cells of the two storages are equal
C6_EqeqEqualCells == pc = "eqdone" /\ SameCells(s, t) => out.res = "true"

(***************************************************************************)
(* Elementwise engine                                                      *)
(***************************************************************************)
EwOps == {"add", "sub", "mul"}

ew_op_switch(op, a, b) ==
  IF op = "add" THEN a + b
  ELSE IF op = "sub" THEN a - b
  ELSE a * b

\* what a step of the merge appends to the destination: the pair, unless the result is zero
EwEmit(col, tmp_result) == IF tmp_result # 0 THEN << <<col, tmp_result>> >> ELSE <<>>

\* a faulty variant of EwOneSided: a column stored on one side only is always combined with zero
EwOneSidedUnguarded(op, col, a, b) == EwEmit(col, ew_op_switch("add", a, b))

\* a column stored on one side only, met while both rows still have entries
EwOneSided(op, col, a, b) ==
  IF op # "mul" THEN EwEmit(col, ew_op_switch(op, a, b)) ELSE <<>>

\* the pairs one row of the merge appends, from positions la_index and ra_index of the operands
RECURSIVE EwRow(_, _, _, _, _, _, _)
EwRow(op, left, right, la_index, la_row_max, ra_index, ra_row_max) ==
  IF la_index < la_row_max /\ ra_index < ra_row_max
  THEN IF left.ija[la_index] = right.ija[ra_index]
       THEN EwEmit(left.ija[la_index], ew_op_switch(op, left.a[la_index], right.a[ra_index]))
            \o EwRow(op, left, right, la_index + 1, la_row_max, ra_index + 1, ra_row_max)
       ELSE IF left.ija[la_index] < right.ija[ra_index]
       THEN EwOneSided(op, left.ija[la_index], left.a[la_index], 0)
            \o EwRow(op, left, right, la_index + 1, la_row_max, ra_index, ra_row_max)
       ELSE EwOneSided(op, right.ija[ra_index], 0, right.a[ra_index])
            \o EwRow(op, left, right, la_index, la_row_max, ra_index + 1, ra_row_max)
  ELSE IF op = "mul" THEN <<>>
  ELSE IF la_index < la_row_max
  THEN EwEmit(left.ija[la_index], ew_op_switch(op, left.a[la_index], 0))
       \o EwRow(op, left, right, la_index + 1, la_row_max, ra_index, ra_row_max)
  ELSE IF ra_index < ra_row_max
  THEN EwEmit(right.ija[ra_index], ew_op_switch(op, 0, right.a[ra_index]))
       \o EwRow(op, left, right, la_index, la_row_max, ra_index + 1, ra_row_max)
  ELSE <<>>

\* the pairs appended by rows 0..row_index-1
RECURSIVE EwRows(_, _, _, _)
EwRows(op, left, right, row_index) ==
  IF row_index = 0 THEN <<>>
  ELSE LET i == row_index - 1
           a_index_offset == left.rows + 1
           la_index == IF i = 0 THEN a_index_offset ELSE left.ija[i]
           ra_index == IF i = 0 THEN a_index_offset ELSE right.ija[i]
       IN  EwRows(op, left, right, i)
           \o EwRow(op, left, right, la_index, left.ija[i+1], ra_index, right.ija[i+1])

\* a faulty variant of EwRowBound: the last row's right bound is not written after the loop
\* and keeps the value the last row's left bound had
EwRowBoundStale(op, left, right, k) ==
  left.rows + 1 + Len(EwRows(op, left, right, IF k = left.rows THEN k - 1 ELSE k))

\* the row pointer written to IJA[k] of the destination: row k's left bound as row k begins,
\* and the last row's right bound after the loop
EwRowBound(op, left, right, k) == left.rows + 1 + Len(EwRows(op, left, right, k))

\* ew_op: the set of its outcomes [ret, st, oob, spill]; oob records a write past the
\* allocated arrays, after which the slots written there hold anything, or the process dies;
\* spill is the set of values that were written past the end of the value array
ew_op(op, left, right) ==
  LET rows == left.rows
      init_capacity == Min(left.ndnz + right.ndnz + rows, rows * left.cols)
      dest == nm_yale_storage_create(rows, left.cols, init_capacity)
      a_index_offset == rows + 1
      pairs == EwRows(op, left, right, rows)
      ndnz == Len(pairs)
      capacity == rows + ndnz + 1
      ija == [k \in 0..capacity-1 |->
                IF k <= rows THEN EwRowBound(op, left, right, k)
                ELSE pairs[k - rows][1]]
      a == [k \in 0..capacity-1 |->
              IF k < rows THEN ew_op_switch(op, left.a[k], right.a[k])
              ELSE IF k = rows THEN 0
              ELSE pairs[k - rows][2]]
      over == {k \in 0..capacity-1 : k >= dest.capacity}
      built == [dest EXCEPT !.capacity = capacity, !.ndnz = ndnz, !.ija = ija, !.a = a]
  IN  IF over = {} THEN {[ret |-> "ok", st |-> built, oob |-> FALSE, spill |-> {}]}
      ELSE {[ret |-> "crash", st |-> None, oob |-> TRUE, spill |-> {}]} \cup
           { [ret |-> "ok", oob |-> TRUE, spill |-> {a[k] : k \in over},
              st |-> [built EXCEPT !.ija = [k \in DOMAIN ija |-> IF k \in over THEN f[k] ELSE ija[k]],
                                   !.a = [k \in DOMAIN a |-> IF k \in over THEN g[k] ELSE a[k]]]]
             : f \in UNION {[over -> JunkIdx \cup {ija[k]}] : k \in over},
               g \in UNION {[over -> JunkVal \cup {a[k]}] : k \in over} }

(***************************************************************************)
(* EwSpec: two well-formed storages of one shape are combined.             *)
(***************************************************************************)
EwInit ==
  /\ pc = "ew"
  /\ \E shape \in BinShapes :
       \E p \in Operands(shape) \X Operands(shape) : s = p[1] /\ t = p[2]
  /\ dense = <<>>
  /\ ret = "none"
  /\ hist = 0
  /\ inp = <<>>
  /\ out = <<>>

\* the operands as they are when ew_op returns: the operation itself never assigns to them,
\* but a write past the end of the result's value array lands in whatever the allocator put
\* there, which may be the first value slot of either operand
EwOperandsAfter(left, right, o) ==
  {<<left, right>>} \cup
  {<<[left EXCEPT !.a[0] = v], right>> : v \in o.spill} \cup
  {<<left, [right EXCEPT !.a[0] = v]>> : v \in o.spill}

EwOp ==
  /\ pc = "ew"
  /\ \E op \in EwOps :
       /\ inp' = [op |-> op]
       /\ \E o \in ew_op(op, s, t) :
            \E p \in EwOperandsAfter(s, t, o) :
              out' = [ret |-> o.ret, st |-> o.st, oob |-> o.oob, left |-> p[1], right |-> p[2]]
  /\ pc' = "ewdone"
  /\ UNCHANGED <<s, t, dense, ret, hist>>

EwNext == EwOp

EwSpec == EwInit /\ [][EwNext]_vars

\* C7: the result of ew_op holds, at every cell, the operation applied to the two operand
\* cells (add, sub, mul); in particular adding the zero matrix gives the cells back
C7_EwOpCellwise ==
  pc = "ewdone" =>
    /\ out.ret = "ok"
    /\ \A x \in Cells(s.rows, s.cols) :
         RefVal(out.st, x[1], x[2]) = ew_op_switch(inp.op, RefVal(s, x[1], x[2]), RefVal(t, x[1], x[2]))

StoredCols(st, i) == {st.ija[k] : k \in st.ija[i]..(st.ija[i+1] - 1)}

\* C8: under multiply, a row whose stored columns on the two sides are disjoint gives an
\* empty row of the result (its two row pointers are equal)
C8_MultiplySkipsOneSided ==
  pc = "ewdone" /\ inp.op = "mul" =>
    \A i \in 0..(s.rows - 1) :
      StoredCols(s, i) \cap StoredCols(t, i) = {} =>
        /\ out.ret = "ok"
        /\ out.st.ija[i] = out.st.ija[i+1]

C8_Witness ==
  /\ pc = "ewdone" /\ inp.op = "mul" /\ out.ret = "ok"
  /\ s.rows = 2
  /\ \E k \in s.ija[1]..(s.ija[2] - 1), m \in t.ija[1]..(t.ija[2] - 1) :
       s.a[k] # 0 /\ t.a[m] # 0
  /\ StoredCols(s, 1) \cap StoredCols(t, 1) = {}
  /\ out.st.ija[1] = out.st.ija[2]
  /\ out.st.ija[0] < out.st.ija[1]

(***************************************************************************)
(* Sparse multiply engine.  The wrapper matrix_multiply is the source's;   *)
(* the three passes it calls live outside this file and are modelled from  *)
(* their description: the symbolic pass fixes each row's set of columns    *)
(* (in any order), the numeric pass fills in the sums, the last pass sorts *)
(* every row by column.                                                    *)
(***************************************************************************)
RECURSIVE Sum(_, _)
Sum(f, S) == IF S = {} THEN 0 ELSE LET x == CHOOSE y \in S : TRUE IN f[x] + Sum(f, S \ {x})

\* cell (i, j) of the product
Dot(left, right, i, j) ==
  Sum([k \in 0..(left.cols - 1) |-> RefVal(left, i, k) * RefVal(right, k, j)], 0..(left.cols - 1))

\* the off-diagonal columns of row i of the product: reachable through a non-zero of each side
ProductCols(left, right, i) ==
  {j \in 0..(right.cols - 1) :
     j # i /\ \E k \in 0..(left.cols - 1) : RefVal(left, i, k) # 0 /\ RefVal(right, k, j) # 0}

Orders(S) == {f \in [1..Cardinality(S) -> S] : \A p, q \in 1..Cardinality(S) : p # q => f[p] # f[q]}

\* the column sequences rows 0..i-1 can get, one order per row
RECURSIVE SymbCols(_, _, _)
SymbCols(left, right, i) ==
  IF i = 0 THEN {<<>>}
  ELSE {p \o q : p \in SymbCols(left, right, i - 1), q \in Orders(ProductCols(left, right, i - 1))}

RECURSIVE SymbCount(_, _, _)
SymbCount(left, right, i) ==
  IF i = 0 THEN 0
  ELSE SymbCount(left, right, i - 1) + Cardinality(ProductCols(left, right, i - 1))

\* symbolic pass: row pointers and columns of the product, written into result
symbmm(left, right, result) ==
  LET rows == result.rows
  IN  { [result EXCEPT !.ija = [k \in DOMAIN result.ija |->
                                  IF k <= rows THEN rows + 1 + SymbCount(left, right, k)
                                  ELSE IF k - rows <= Len(cs) THEN cs[k - rows]
                                  ELSE result.ija[k]]]
        : cs \in SymbCols(left, right, rows) }

RowOf(st, k) == CHOOSE i \in 0..(st.rows - 1) : st.ija[i] <= k /\ k < st.ija[i+1]

\* numeric pass: the sums, at the slots the symbolic pass fixed
numbmm(left, right, st) ==
  [st EXCEPT !.a = [k \in DOMAIN st.a |->
                      IF k < st.rows THEN (IF k < st.cols THEN Dot(left, right, k, k) ELSE st.a[k])
                      ELSE IF k = st.rows THEN st.a[k]
                      ELSE IF k < get_size(st) THEN Dot(left, right, RowOf(st, k), st.ija[k])
                      ELSE st.a[k]]]

\* slot positions lo..hi of st ordered by the column they hold (insertion into a sorted prefix)
RECURSIVE SortedSlots(_, _, _)
SortedSlots(st, lo, hi) ==
  IF hi < lo THEN <<>>
  ELSE LET pre == SortedSlots(st, lo, hi - 1)
           n == Cardinality({p \in 1..Len(pre) : st.ija[pre[p]] <= st.ija[hi]})
       IN  SubSeq(pre, 1, n) \o <<hi>> \o SubSeq(pre, n + 1, Len(pre))

\* last pass: every row's (column, value) pairs sorted by column
smmp_sort_columns(st) ==
  LET src(k) == LET i == RowOf(st, k)
                IN  SortedSlots(st, st.ija[i], st.ija[i+1] - 1)[k - st.ija[i] + 1]
      inrow(k) == k > st.rows /\ k < get_size(st)
  IN  [st EXCEPT !.ija = [k \in DOMAIN st.ija |-> IF inrow(k) THEN st.ija[src(k)] ELSE st.ija[k]],
                 !.a = [k \in DOMAIN st.a |-> IF inrow(k) THEN st.a[src(k)] ELSE st.a[k]]]

\* a faulty variant of matrix_multiply: the sorting pass is not called
matrix_multiply_unsorted(left, right) ==
  LET result == init(nm_yale_storage_create(left.rows, right.cols, left.capacity + right.capacity))
  IN  IF left.rows + 1 + SymbCount(left, right, left.rows) > result.capacity
      THEN {[ret |-> "crash", st |-> None]}
      ELSE {[ret |-> "ok", st |-> numbmm(left, right, x)] : x \in symbmm(left, right, result)}

\* matrix_multiply: the set of its outcomes [ret, st]
matrix_multiply(left, right) ==
  LET result == init(nm_yale_storage_create(left.rows, right.cols, left.capacity + right.capacity))
  IN  IF left.rows + 1 + SymbCount(left, right, left.rows) > result.capacity
      THEN {[ret |-> "crash", st |-> None]}
      ELSE {[ret |-> "ok", st |-> smmp_sort_columns(numbmm(left, right, x))]
            : x \in symbmm(left, right, result)}

(***************************************************************************)
(* MatSpec: a 3-row storage is multiplied from the left by a 3x3 storage.  *)
(***************************************************************************)
MatCols == 3

Identity3 ==
  Stored(3, 3, [x \in Cells(3, 3) |-> IF x[1] = x[2] THEN 1 ELSE Absent])

\* left operands: the identity, and the 3x3 storages with one stored entry off the diagonal
MatLeft(n) ==
  {Identity3} \cup
  {Stored(n, n, [x \in Cells(n, n) |-> IF x[1] = x[2] THEN d ELSE IF x = y THEN v ELSE Absent])
     : d \in Vals, v \in {MaxVal}, y \in {x \in Cells(n, n) : x[1] # x[2]}}

MatRight(n) == UNION {Operands(<<n, c>>) : c \in 1..MatCols}

MatInit ==
  /\ pc = "mm"
  /\ \E p \in MatLeft(3) \X MatRight(3) : s = p[1] /\ t = p[2]
  /\ dense = <<>>
  /\ ret = "none"
  /\ hist = 0
  /\ inp = <<>>
  /\ out = <<>>

MatMul ==
  /\ pc = "mm"
  /\ \E o \in matrix_multiply(s, t) : out' = o
  /\ pc' = "mmdone"
  /\ UNCHANGED <<s, t, dense, ret, hist, inp>>

MatNext == MatMul

MatSpec == MatInit /\ [][MatNext]_vars

Ascending(st) ==
  \A i \in 0..(st.rows - 1) :
    \A k \in st.ija[i]..(st.ija[i+1] - 2) : st.ija[k] < st.ija[k+1]

\* C9: the product of the 3x3 identity and M equals M cell for cell, and every row of the
\* result has strictly ascending columns
C9_IdentityProduct ==
  pc = "mmdone" /\ s = Identity3 =>
    /\ out.ret = "ok"
    /\ \A x \in Cells(t.rows, t.cols) : RefVal(out.st, x[1], x[2]) = RefVal(t, x[1], x[2])
    /\ Ascending(out.st)

C9_Witness ==
  /\ pc = "mmdone" /\ s = Identity3 /\ out.ret = "ok"
  /\ t.cols = 3
  /\ RefVal(t, 0, 1) # 0 /\ RefVal(t, 0, 2) # 0 /\ RefVal(t, 2, 0) # 0
  /\ out.st.ija[1] = out.st.ija[0] + 2
  /\ \A x \in Cells(t.rows, t.cols) : RefVal(out.st, x[1], x[2]) = RefVal(t, x[1], x[2])

(***************************************************************************)
(* Slice extraction (get): a counting pass, then a copying pass.           *)
(***************************************************************************)
\* counting pass: the destination cells off its diagonal that the source has
GetCount(storage, ro, co, rl, cl) ==
  Cardinality({x \in Cells(rl, cl) :
     LET k == x[1] + ro
         l == x[2] + co
     IN  /\ x[2] # x[1]
         /\ IF k = l THEN storage.a[k] # 0
            ELSE \E c \in storage.ija[k]..(storage.ija[k+1] - 1) : storage.ija[c] = l})

\* copying pass, reading source cell (k, l): [found, val]
GetFind(storage, k, l) ==
  IF k = l THEN [found |-> storage.a[k] # 0, val |-> storage.a[k]]
  ELSE LET hits == {c \in storage.ija[k]..(storage.ija[k+1] - 1) : storage.ija[c] = l}
       IN  IF hits = {} THEN [found |-> FALSE, val |-> 0]
           ELSE [found |-> TRUE, val |-> storage.a[CHOOSE c \in hits : \A d \in hits : c <= d]]

\* a faulty variant of GetStep: the pointers of the rows that follow are not moved
GetStepNoRowPointers(storage, ro, co, x, d) ==
  LET f == GetFind(storage, x[1] + ro, x[2] + co)
  IN  IF ~f.found \/ d.oob THEN d
      ELSE IF x[1] = x[2] THEN [d EXCEPT !.ns.a[x[1]] = f.val]
      ELSE IF d.ija >= d.ns.capacity THEN [d EXCEPT !.oob = TRUE]
      ELSE [d EXCEPT !.ns.ija[d.ija] = x[2], !.ns.a[d.ija] = f.val, !.ija = @ + 1]

\* copying pass, destination cell x: d is [ns, ija, oob]
GetStep(storage, ro, co, x, d) ==
  LET f == GetFind(storage, x[1] + ro, x[2] + co)
  IN  IF ~f.found \/ d.oob THEN d
      ELSE IF x[1] = x[2] THEN [d EXCEPT !.ns.a[x[1]] = f.val]
      ELSE IF d.ija >= d.ns.capacity THEN [d EXCEPT !.oob = TRUE]
      ELSE [d EXCEPT !.ns.ija = [c \in DOMAIN d.ns.ija |->
                                   IF c = d.ija THEN x[2]
                                   ELSE IF c >= x[1] + 1 /\ c <= d.ns.rows THEN d.ija + 1
                                   ELSE d.ns.ija[c]],
                     !.ns.a[d.ija] = f.val,
                     !.ija = @ + 1]

RECURSIVE GetFill(_, _, _, _, _)
GetFill(storage, ro, co, q, d) ==
  IF q = <<>> THEN d
  ELSE GetFill(storage, ro, co, Tail(q), GetStep(storage, ro, co, Head(q), d))

\* get(slice): the outcome [ret, st, src]; src is the source as the call leaves it
get(storage, ro, co, rl, cl) ==
  LET ndnz == GetCount(storage, ro, co, rl, cl)
      request_capacity == rl + ndnz + 1
      ns == nm_yale_storage_create(rl, cl, request_capacity)
      d == GetFill(storage, ro, co, CellSeq(rl, cl),
                   [ns |-> init(ns), ija |-> rl + 1, oob |-> FALSE])
  IN  IF ns.capacity < request_capacity THEN [ret |-> "typeerr", st |-> None, src |-> storage]
      ELSE IF d.oob THEN [ret |-> "crash", st |-> None, src |-> storage]
      ELSE [ret |-> "ok", src |-> storage,
            st |-> [d.ns EXCEPT !.ija[rl] = d.ija, !.ndnz = ndnz]]

(***************************************************************************)
(* SliceSpec: a window inside a well-formed storage is copied out.         *)
(***************************************************************************)
SliceSources(shapes) == UNION {Operands(shape) : shape \in shapes}

SliceInit ==
  /\ pc = "slice"
  /\ s \in SliceSources(Shapes)
  /\ t = None
  /\ dense = <<>>
  /\ ret = "none"
  /\ hist = 0
  /\ inp = <<>>
  /\ out = <<>>

Get ==
  /\ pc = "slice"
  /\ \E ro \in 0..(s.rows - 1), co \in 0..(s.cols - 1) :
       \E rl \in 1..(s.rows - ro), cl \in 1..(s.cols - co) :
         LET o == get(s, ro, co, rl, cl)
         IN  /\ inp' = [ro |-> ro, co |-> co, rl |-> rl, cl |-> cl, src |-> s]
             /\ out' = [ret |-> o.ret, st |-> o.st]
             /\ s' = o.src
  /\ pc' = "sliced"
  /\ UNCHANGED <<t, dense, ret, hist>>

SliceNext == Get

SliceSpec == SliceInit /\ [][SliceNext]_vars

\* C10: the storage the slice-copy get returns has the window's shape and holds, at every
\* cell (i, j), the source's cell (i + ro, j + co); the source is left unchanged
C10_SliceCopy ==
  pc = "sliced" =>
    /\ out.ret = "ok"
    /\ out.st.rows = inp.rl /\ out.st.cols = inp.cl
    /\ \A x \in Cells(inp.rl, inp.cl) :
         RefVal(out.st, x[1], x[2]) = RefVal(inp.src, x[1] + inp.ro, x[2] + inp.co)
    /\ s = inp.src

C10_Witness ==
  /\ pc = "sliced" /\ out.ret = "ok"
  /\ inp.ro = 0 /\ inp.co = 1 /\ inp.rl = 2 /\ inp.cl = 2
  /\ inp.src.a[1] # 0
  /\ RefVal(inp.src, 0, 1) # 0
  /\ RefVal(inp.src, 0, 2) # 0
  /\ RefVal(inp.src, 1, 2) = 0
  /\ RefVal(out.st, 1, 0) = inp.src.a[1]
  /\ RefVal(out.st, 0, 0) = RefVal(inp.src, 0, 1)
  /\ RefVal(out.st, 0, 1) = RefVal(inp.src, 0, 2)
  /\ RefVal(out.st, 1, 1) = 0

(***************************************************************************)
(* RefSpec: ref is called with in-range coordinates on a storage built     *)
(* from a valid triple.                                                    *)
(***************************************************************************)
\* a faulty variant of nm_yale_storage_ref: a column missing from a non-empty row reads
\* the row's first slot
nm_yale_storage_ref_first_slot(st, r, c) ==
  [ret  |-> "ok",
   slot |-> IF r # c /\ st.ija[r] < st.ija[r+1] /\ ref(st, r, c) = st.rows
            THEN st.ija[r] ELSE ref(st, r, c),
   st   |-> st]

\* a call of ref through the C accessor: what it returns (the slot pointed at) and the
\* storage as the call leaves it; the call has no raise for a single cell and no write
nm_yale_storage_ref(st, r, c) == [ret |-> "ok", slot |-> ref(st, r, c), st |-> st]

RefInit ==
  /\ pc = "ref"
  /\ \E shape \in Shapes : \E lay \in TripleLayouts(shape[1], shape[2]) :
       LET tr == TripleOf(shape[1], shape[2], lay)
       IN  s = create_from_old_yale(tr.rows, tr.cols, tr.ia, tr.ja, tr.a)
  /\ t = None
  /\ dense = <<>>
  /\ ret = "none"
  /\ hist = 0
  /\ inp = <<>>
  /\ out = <<>>

Ref ==
  /\ pc = "ref"
  /\ \E r \in 0..(s.rows - 1), c \in 0..(s.cols - 1) :
       LET o == nm_yale_storage_ref(s, r, c)
       IN  /\ inp' = [r |-> r, c |-> c, before |-> s]
           /\ out' = [slot |-> o.slot]
           /\ ret' = o.ret
           /\ s' = o.st
  /\ pc' = "refdone"
  /\ UNCHANGED <<t, dense, hist>>

RefNext == Ref

RefSpec == RefInit /\ [][RefNext]_vars

\* C11: ref on in-range coordinates does not raise and leaves A, IJA, capacity and ndnz
\* as they were; for an off-diagonal cell that is not stored it returns the sentinel
\* slot A[rows], which holds zero
C11_RefFrame ==
  pc = "refdone" =>
    /\ ret = "ok"
    /\ s = inp.before
    /\ (inp.r # inp.c /\ inp.c \notin StoredCols(inp.before, inp.r)
          => out.slot = s.rows /\ s.a[out.slot] = 0)

\* a column missing from a non-empty row was read
C11_Witness ==
  /\ pc = "refdone" /\ ret = "ok"
  /\ inp.r # inp.c
  /\ StoredCols(inp.before, inp.r) # {}
  /\ inp.c \notin StoredCols(inp.before, inp.r)
  /\ out.slot = s.rows

(***************************************************************************)
(* Bulk insertion: nm_vector_insert                                        *)
(***************************************************************************)
\* the optional position argument left out
NilPos == 0 - 1

\* nm_vector_insert(i, jv, vv, pos_): the set of outcomes [ret, st, next]; pos_ is a
\* position or NilPos; ret is "i", or the raise that ended the call, or "crash"
nm_vector_insert(st, i, jv, vv, pos_) ==
  LET len == Len(jv)
      pos == IF pos_ = NilPos THEN st.ija[i] ELSE pos_
      vi  == vector_insert(st, pos, jv, vv, len, FALSE)
  IN  IF len # Len(vv) THEN {[ret |-> "argerr", st |-> st, next |-> 0]}
      ELSE IF vi.ret # "i" THEN {[ret |-> vi.ret, st |-> st, next |-> 0]}
      ELSE { [ret |-> "i", st |-> x, next |-> pos + len] :
             x \in Resolve([increment_ia_after(vi.st, st.rows, i, len)
                              EXCEPT !.ndnz = @ + len]) }

(***************************************************************************)
(* VecSpec: a storage is created and init-ed, then set and nm_vector_insert *)
(* are called.  hist counts the calls, the structural insertions of set    *)
(* and the bulk calls; inp records the last call and the storage before it. *)
(***************************************************************************)
VecCells == 4
MaxLen == 2
VecCalls == 3

VecShapes == {x \in (1..VecCells) \X (1..VecCells) : x[1] * x[2] <= VecCells}

\* the sequences of length 1..n over S
SeqsUpTo(S, n) == UNION {[1..k -> S] : k \in 1..n}

\* the slot at which set inserts a column that is not stored
SetPos(st, r, c) ==
  IF st.ija[r] = st.ija[r+1] THEN st.ija[r]
  ELSE insert_search(st, st.ija[r], st.ija[r+1] - 1, c).pos

\* every row pointer of st points into the allocation: a call on a storage without
\* this reads outside the arrays, and is not followed
Addressable(st) == \A k \in 0..st.rows : st.ija[k] >= 0 /\ st.ija[k] <= st.capacity

VecInit ==
  /\ pc = "vec"
  /\ \E shape \in VecShapes, init_capacity \in 0..MaxInitCap :
       s = init(nm_yale_storage_create(shape[1], shape[2], init_capacity))
  /\ t = None
  /\ dense = <<>>
  /\ ret = "none"
  /\ hist = [calls |-> 0, ins |-> 0, bulk |-> 0]
  /\ inp = [op |-> "none"]
  /\ out = <<>>

VecSet ==
  /\ pc = "vec"
  /\ hist.calls < VecCalls
  /\ Addressable(s)
  /\ \E r \in 0..s.rows-1, c \in 0..s.cols-1, v \in Vals :
       \E o \in set(s, r, c, v) :
         /\ s' = o.st
         /\ ret' = o.ret
         /\ inp' = [op |-> "set", r |-> r, c |-> c, v |-> v, before |-> s]
         /\ hist' = [hist EXCEPT !.calls = @ + 1,
                                 !.ins = IF o.ret = "i" THEN @ + 1 ELSE @]
  /\ UNCHANGED <<pc, t, dense, out>>

VecInsert ==
  /\ pc = "vec"
  /\ hist.calls < VecCalls
  /\ Addressable(s)
  /\ \E i \in 0..s.rows-1, jv \in SeqsUpTo(0..s.cols-1, MaxLen),
        pos_ \in {NilPos} \cup 0..Min(get_size(s), s.capacity) :
       \E vv \in [1..Len(jv) -> 1..MaxVal] \cup {[k \in 1..(Len(jv) + 1) |-> MaxVal]} :
         \E o \in nm_vector_insert(s, i, jv, vv, pos_) :
           /\ s' = o.st
           /\ ret' = o.ret
           /\ out' = [next |-> o.next]
           /\ inp' = [op |-> "vins", i |-> i, jv |-> jv, vv |-> vv,
                      pos |-> IF pos_ = NilPos THEN s.ija[i] ELSE pos_, before |-> s]
           /\ hist' = [hist EXCEPT !.calls = @ + 1, !.bulk = @ + 1]
  /\ UNCHANGED <<pc, t, dense>>

VecNext == VecSet \/ VecInsert

VecSpec == VecInit /\ [][VecNext]_vars

\* C12: in every state reached from create through set and bulk insertion calls,
\* rows + ndnz + 1 <= capacity <= rows*cols + 1 + max(0, rows - cols)
C12_CapacityBounds ==
  pc = "vec" =>
    /\ s.capacity >= s.rows + s.ndnz + 1
    /\ s.capacity <= s.rows * s.cols + 1 + Max(0, s.rows - s.cols)

\* the last call was a bulk insertion of matching lengths at a position of the
\* off-diagonal region
BulkInRegion ==
  /\ pc = "vec" /\ inp.op = "vins"
  /\ Len(inp.jv) = Len(inp.vv)
  /\ inp.pos > inp.before.rows /\ inp.pos <= get_size(inp.before)

\* C13: an insertion of count slots with size + count > max_size fails with the
\* resource-exhaustion error and leaves the storage as it was
C13_NoMemBeyondMax ==
  BulkInRegion /\ get_size(inp.before) + Len(inp.jv) > max_size(inp.before) =>
    ret = "nomem" /\ s = inp.before

(***************************************************************************)
(* nm_yale_storage_ew_op: the entry point that promotes the operand kinds  *)
(* and dispatches on the operator.                                         *)
(***************************************************************************)
\* the operators in the order of their index (ewop_t); div and mod are not applied here
ewop_t == <<"add", "sub", "mul", "div", "mod", "eqeq", "neq", "lt", "gt", "leq", "geq">>

NUM_NONCOMP_EWOPS == 5

DTypes == {"float64", "complex64", "complex128"}

\* promotion of two value kinds: the kind that holds both
Upcast(l, r) == IF l = r THEN l ELSE "complex128"

\* copy_alloc_struct: a new storage of the given capacity with rhs's indices within its size
copy_alloc_struct(rhs, new_capacity) ==
  [rhs EXCEPT !.capacity = new_capacity,
              !.ija = [k \in 0..new_capacity-1 |-> IF k < get_size(rhs) THEN rhs.ija[k] ELSE Uninit],
              !.a = [k \in 0..new_capacity-1 |-> Uninit]]

\* cast_copy: the values within the size converted to the wider kind, which holds each of
\* them exactly; the slots past the size stay uninitialised
cast_copy(rhs) ==
  LET lhs == copy_alloc_struct(rhs, rhs.capacity)
  IN  [lhs EXCEPT !.a = [k \in DOMAIN lhs.a |-> IF k < get_size(rhs) THEN rhs.a[k] ELSE Uninit]]

\* a faulty variant of nm_yale_storage_ew_op: with operands of one kind the operator index is
\* not tested, and a comparison is carried out as a subtraction
nm_yale_storage_ew_op_unchecked(op, left, ldtype, right, rdtype) ==
  LET new_dtype == Upcast(ldtype, rdtype)
      made == (IF ldtype # new_dtype THEN 1 ELSE 0) + (IF rdtype # new_dtype THEN 1 ELSE 0)
      name == IF op < NUM_NONCOMP_EWOPS THEN ewop_t[op + 1] ELSE "sub"
  IN  IF ldtype # rdtype /\ op >= NUM_NONCOMP_EWOPS
      THEN {[ret |-> "notimp", st |-> None, made |-> made, freed |-> 0]}
      ELSE {[ret |-> o.ret, st |-> o.st, made |-> made, freed |-> made] : o \in ew_op(name, left, right)}

\* nm_yale_storage_ew_op: the set of its outcomes [ret, st, made, freed, null]; made and
\* freed count the temporary cast copies created and destroyed, null records that the index
\* kind was read through new_l while no copy of left had been made, which dereferences a null
\* pointer: the process dies, or goes on
nm_yale_storage_ew_op(op, left, ldtype, right, rdtype) ==
  LET new_dtype == Upcast(ldtype, rdtype)
      castl == ldtype # new_dtype
      castr == rdtype # new_dtype
      l == IF castl THEN cast_copy(left) ELSE left
      r == IF castr THEN cast_copy(right) ELSE right
      made == (IF castl THEN 1 ELSE 0) + (IF castr THEN 1 ELSE 0)
      run(x, y, m, null) ==
        {[ret |-> o.ret, st |-> o.st, made |-> m, freed |-> IF o.ret = "ok" THEN m ELSE 0,
          null |-> null] : o \in ew_op(ewop_t[op + 1], x, y)}
      notimp(m) == {[ret |-> "notimp", st |-> None, made |-> m, freed |-> 0, null |-> FALSE]}
  IN  IF ldtype # rdtype
      THEN IF op < NUM_NONCOMP_EWOPS
           THEN (IF castl THEN {}
                 ELSE {[ret |-> "crash", st |-> None, made |-> made, freed |-> 0, null |-> TRUE]})
                \cup run(l, r, made, ~castl)
           ELSE notimp(made)
      ELSE IF op < NUM_NONCOMP_EWOPS THEN run(left, right, 0, FALSE)
           ELSE notimp(0)

(***************************************************************************)
(* DispatchSpec: two well-formed storages of one shape and of any two      *)
(* kinds are combined under any operator.                                  *)
(***************************************************************************)
DispatchShapes == {x \in BinShapes : x[1] * x[2] <= BinRows}

\* the operator indices applied: add, sub, mul and every comparison
DispatchOps == {k \in 0..(Len(ewop_t) - 1) : ewop_t[k + 1] \in EwOps \/ k >= NUM_NONCOMP_EWOPS}

DispatchInit ==
  /\ pc = "disp"
  /\ \E shape \in DispatchShapes :
       \E p \in Operands(shape) \X Operands(shape) : s = p[1] /\ t = p[2]
  /\ \E ldtype \in DTypes, rdtype \in DTypes : inp = [ldtype |-> ldtype, rdtype |-> rdtype]
  /\ dense = <<>>
  /\ ret = "none"
  /\ hist = 0
  /\ out = <<>>

Dispatch ==
  /\ pc = "disp"
  /\ \E op \in DispatchOps :
       /\ hist' = op
       /\ \E o \in nm_yale_storage_ew_op(op, s, inp.ldtype, t, inp.rdtype) :
            /\ out' = o
            /\ ret' = o.ret
  /\ pc' = "dispdone"
  /\ UNCHANGED <<s, t, dense, inp>>

DispatchNext == Dispatch

DispatchSpec == DispatchInit /\ [][DispatchNext]_vars

\* C15: nm_yale_storage_ew_op called with a comparison operator (index at or above
\* NUM_NONCOMP_EWOPS) fails with a not-implemented error and returns no result storage,
\* whether the two operand kinds are equal or differ
C15_ComparisonNotImplemented ==
  pc = "dispdone" /\ hist >= NUM_NONCOMP_EWOPS => ret = "notimp" /\ out.st = None

C15_Witness ==
  /\ pc = "dispdone" /\ hist >= NUM_NONCOMP_EWOPS
  /\ inp.ldtype = inp.rdtype
  /\ s.ndnz > 0 /\ t.ndnz > 0
  /\ ret = "notimp"

C15_WitnessMixed ==
  /\ pc = "dispdone" /\ hist >= NUM_NONCOMP_EWOPS
  /\ inp.ldtype # inp.rdtype
  /\ ret = "notimp" /\ out.made = 2

\* C16: set on a diagonal cell returns 'r' (replaced) and changes only A[row]; set on an
\* off-diagonal cell returns 'r' with size and ndnz unchanged when the column is already
\* stored in the row, and 'i' (inserted) with size and ndnz each one larger when it is not
C16_SetTags ==
  pc = "vec" /\ inp.op = "set" /\ hist.bulk = 0 =>
    LET b == inp.before
    IN  IF inp.r = inp.c
        THEN ret = "r" /\ s = [b EXCEPT !.a[inp.r] = inp.v]
        ELSE IF inp.c \in StoredCols(b, inp.r)
        THEN ret = "r" /\ get_size(s) = get_size(b) /\ s.ndnz = b.ndnz
        ELSE ret = "i" /\ get_size(s) = get_size(b) + 1 /\ s.ndnz = b.ndnz + 1

\* the postcondition of a bulk insertion of len pairs at pos for row i
BulkInserted(b, i, jv, vv, pos) ==
  LET len == Len(jv)
  IN  /\ out.next = pos + len
      /\ \A k \in (i + 1)..b.rows : s.ija[k] = b.ija[k] + len
      /\ s.ndnz = b.ndnz + len
      /\ \A k \in 0..i : s.ija[k] = b.ija[k]
      /\ \A k \in 1..len : s.ija[pos + k - 1] = jv[k] /\ s.a[pos + k - 1] = vv[k]

\* C17: nm_vector_insert(i, columns, values, pos) with columns and values of one length len,
\* on a storage whose capacity holds size + len, returns pos + len, adds len to the row
\* pointers IJA[i+1 .. rows] and to ndnz, leaves IJA[0 .. i] unchanged and places the pairs at
\* [pos, pos + len); with columns and values of different lengths it fails with an argument
\* error and changes nothing
C17_BulkInsert ==
  pc = "vec" /\ inp.op = "vins" =>
    IF Len(inp.jv) # Len(inp.vv) THEN ret = "argerr" /\ s = inp.before
    ELSE get_size(inp.before) + Len(inp.jv) <= inp.before.capacity /\ ret = "i" =>
           BulkInserted(inp.before, inp.i, inp.jv, inp.vv, inp.pos)

\* C18: vector_insert accepts a position only inside the off-diagonal region: a call with
\* pos <= rows (a diagonal slot, or the sentinel / last row pointer slot) fails with an error
\* and leaves the storage unchanged
C18_PosOutsideRegionRejected ==
  pc = "vec" /\ inp.op = "vins" /\ Len(inp.jv) = Len(inp.vv) /\ inp.pos <= inp.before.rows =>
    ret \notin {"i", "r"} /\ s = inp.before

\* the slot a completed call inserted at
InsertPos == IF inp.op = "vins" THEN inp.pos ELSE SetPos(inp.before, inp.r, inp.c)

InsertCount == IF inp.op = "vins" THEN Len(inp.jv) ELSE 1

\* a completed insertion (set or bulk) at a slot of the off-diagonal region that had to grow
\* the arrays
GrewInRegion ==
  /\ pc = "vec" /\ inp.op \in {"set", "vins"} /\ ret = "i"
  /\ InsertPos > inp.before.rows /\ InsertPos <= get_size(inp.before)
  /\ get_size(inp.before) + InsertCount > inp.before.capacity

\* C19: when vector_insert had to grow the arrays and the growth succeeded, the new arrays
\* hold the old slots [0, pos) at the same offsets and every old slot k of [pos, size) at
\* k + count, in IJA (row pointers apart, which the caller bumps afterwards) and in A
C19_GrowthKeepsSlots ==
  GrewInRegion =>
    LET b == inp.before
    IN  /\ \A k \in 0..(InsertPos - 1) :
             s.a[k] = b.a[k] /\ (k > b.rows => s.ija[k] = b.ija[k])
        /\ \A k \in InsertPos..(get_size(b) - 1) :
             s.a[k + InsertCount] = b.a[k] /\ s.ija[k + InsertCount] = b.ija[k]


(***************************************************************************)
(* SetOnlySpec: the sequences of VecSpec that consist of set calls only.   *)
(***************************************************************************)
SetOnlyNext == VecSet

SetOnlySpec == VecInit /\ [][SetOnlyNext]_vars

\* C20: after init and after every completed set call of a sequence of in-range set calls,
\* IJA[0] = rows + 1, the row pointers never decrease (IJA[i] <= IJA[i+1]), and
\* IJA[rows] = rows + 1 + the number of insertions made so far
C20_RowPointers ==
  pc = "vec" /\ hist.bulk = 0 =>
    /\ s.ija[0] = s.rows + 1
    /\ \A i \in 0..(s.rows - 1) : s.ija[i] <= s.ija[i+1]
    /\ s.ija[s.rows] = s.rows + 1 + hist.ins

\* three insertions by set, the last one growing the arrays
C20_Witness ==
  /\ pc = "vec" /\ hist.bulk = 0 /\ hist.ins = 3
  /\ inp.op = "set" /\ ret = "i"
  /\ s.capacity > inp.before.capacity
  /\ s.ija[0] = s.rows + 1
  /\ s.ija[s.rows] = s.rows + 4
\* C21: after every completed set call of a sequence of in-range set calls on an init-ed
\* storage, growths included, the columns stored in [IJA[i], IJA[i+1]) of every row i are
\* strictly increasing, each below cols, and none equal to i
C21_RowsAscending ==
  pc = "vec" /\ hist.bulk = 0 =>
    \A i \in 0..(s.rows - 1) :
      /\ \A k \in s.ija[i]..(s.ija[i+1] - 1) :
           s.ija[k] >= 0 /\ s.ija[k] < s.cols /\ s.ija[k] # i
      /\ \A k \in s.ija[i]..(s.ija[i+1] - 2) : s.ija[k] < s.ija[k+1]

\* C22: the sentinel slot A[rows] holds zero after init and after every set call of a
\* sequence of in-range set calls, with or without growths
C22_SentinelZero ==
  pc = "vec" /\ hist.bulk = 0 => s.a[s.rows] = 0

\* non-zero values were set on the diagonal and off it, and the arrays grew
C22_Witness ==
  /\ pc = "vec" /\ hist.bulk = 0 /\ hist.calls = 3 /\ hist.ins = 2
  /\ inp.op = "set" /\ ret = "i" /\ inp.v # 0
  /\ s.capacity > inp.before.capacity
  /\ \E k \in 0..(s.rows - 1) : s.a[k] # 0
  /\ s.a[s.rows] = 0
\* the columns of row i for which ew_op has a non-zero result to store
EwResultCols(op, left, right, i) ==
  {c \in StoredCols(left, i) \cup StoredCols(right, i) :
     ew_op_switch(op, RefVal(left, i, c), RefVal(right, i, c)) # 0}

\* the off-diagonal entries ew_op has to store
EwResultCount(op, left, right) ==
  Sum([i \in 0..(left.rows - 1) |-> Cardinality(EwResultCols(op, left, right, i))],
      0..(left.rows - 1))

\* C23: the storage returned by ew_op has capacity = size = IJA[rows] = rows + ndnz + 1 with
\* ndnz the number of off-diagonal entries emitted, IJA[0] = rows + 1, and
\* IJA[i+1] - IJA[i] equal to the number of entries emitted for row i (so IJA[i] <= IJA[i+1])
C23_EwOpShape ==
  pc = "ewdone" /\ out.ret = "ok" =>
    LET d == out.st
    IN  /\ d.ndnz = EwResultCount(inp.op, s, t)
        /\ d.capacity = d.rows + d.ndnz + 1
        /\ get_size(d) = d.capacity
        /\ d.ija[0] = d.rows + 1
        /\ \A i \in 0..(d.rows - 1) :
             /\ d.ija[i] <= d.ija[i+1]
             /\ d.ija[i+1] - d.ija[i] = Cardinality(EwResultCols(inp.op, s, t, i))

\* two rows, each with entries emitted, and a stored pair whose result is zero left out
C23_Witness ==
  /\ pc = "ewdone" /\ out.ret = "ok" /\ ~out.oob
  /\ s.rows = 2
  /\ out.st.ija[0] < out.st.ija[1] /\ out.st.ija[1] < out.st.ija[2]
  /\ out.st.ndnz < Cardinality(StoredCols(s, 0) \cup StoredCols(t, 0))
                   + Cardinality(StoredCols(s, 1) \cup StoredCols(t, 1))
  /\ out.st.capacity = get_size(out.st)

\* C24: for well-formed operands the storage returned by ew_op (add, subtract, multiply)
\* stores no off-diagonal entry whose value is zero, and the columns of every result row are
\* strictly ascending and never equal to the row index
C24_EwOpNoStoredZero ==
  pc = "ewdone" /\ out.ret = "ok" =>
    \A i \in 0..(out.st.rows - 1) :
      /\ \A k \in out.st.ija[i]..(out.st.ija[i+1] - 1) :
           out.st.a[k] # 0 /\ out.st.ija[k] # i
      /\ \A k \in out.st.ija[i]..(out.st.ija[i+1] - 2) : out.st.ija[k] < out.st.ija[k+1]

(***************************************************************************)
(* LifeSpec: the calls of VecSpec, and init called again on the storage.   *)
(***************************************************************************)
VecReinit ==
  /\ pc = "vec"
  /\ hist.calls < VecCalls
  /\ s' = init(s)
  /\ inp' = [op |-> "init", before |-> s]
  /\ ret' = "none"
  /\ hist' = [hist EXCEPT !.calls = @ + 1]
  /\ UNCHANGED <<pc, t, dense, out>>

LifeNext == VecSet \/ VecInsert \/ VecReinit

LifeSpec == VecInit /\ [][LifeNext]_vars

\* C25: after any sequence of init, set and nm_vector_insert calls, init possibly called
\* again on a storage that holds off-diagonal entries, ndnz = size - rows - 1 with
\* size = IJA[rows]
C25_NdnzIsSize ==
  pc = "vec" => s.ndnz = get_size(s) - s.rows - 1

(***************************************************************************)
(* OuterSpec: a one-column storage is multiplied by a one-row storage.     *)
(***************************************************************************)
OuterRows == 3

OuterCols == 4

\* the result storage of matrix_multiply as it is created, before the three passes
matrix_multiply_result(left, right) ==
  init(nm_yale_storage_create(left.rows, right.cols, left.capacity + right.capacity))

OuterInit ==
  /\ pc = "mm"
  /\ \E n \in 1..OuterRows, m \in 1..OuterCols :
       \E p \in Operands(<<n, 1>>) \X Operands(<<1, m>>) : s = p[1] /\ t = p[2]
  /\ dense = <<>>
  /\ ret = "none"
  /\ hist = 0
  /\ inp = <<>>
  /\ out = <<>>

OuterMul ==
  /\ pc = "mm"
  /\ inp' = [capacity |-> matrix_multiply_result(s, t).capacity]
  /\ \E o \in matrix_multiply(s, t) : out' = o
  /\ pc' = "mmdone"
  /\ UNCHANGED <<s, t, dense, ret, hist>>

OuterNext == OuterMul

OuterSpec == OuterInit /\ [][OuterNext]_vars

\* C26: the capacity of the result storage of matrix_multiply (left.capacity +
\* right.capacity, clamped by nm_yale_storage_create) is at least result rows + 1 + the
\* number of off-diagonal positions of the product's non-zero pattern, so that no pass
\* needs a slot at or beyond the capacity
C26_ProductFits ==
  pc = "mmdone" =>
    /\ inp.capacity >= s.rows + 1 + SymbCount(s, t, s.rows)
    /\ out.ret = "ok"

\* C27: eqeq terminates for every pair of well-formed storages of one shape, and
\* ndrow_eqeq_ndrow never reads A or IJA of a side at a position outside that side's row
\* range [ija, ija_next)
C27_EqeqTerminatesInRange ==
  pc = "eqdone" => out.res # "hang" /\ ~out.oob

\* C28: during ew_op every write to the destination's A and IJA arrays is at an index below
\* the destination's allocated capacity, for all well-formed operands, the final row
\* pointer IJA[rows] included
C28_EwOpWritesInBounds ==
  pc = "ewdone" => ~out.oob

(***************************************************************************)
(* Transposing copy: nm_yale_storage_copy_transposed                       *)
(***************************************************************************)
\* the members of a set of numbers in ascending order
Ascend(S) == CHOOSE f \in [1..Cardinality(S) -> S] : \A p, q \in 1..Cardinality(S) : p < q => f[p] < f[q]

\* the rows of rhs that store column j off the diagonal: the columns of row j of the transpose
TransposedCols(rhs, j) == {i \in 0..(rhs.rows - 1) : j \in StoredCols(rhs, i)}

\* the (column, value) pairs of rows 0..j-1 of the transpose, row after row
RECURSIVE TransposedPairs(_, _)
TransposedPairs(rhs, j) ==
  IF j = 0 THEN <<>>
  ELSE LET cs == Ascend(TransposedCols(rhs, j - 1))
       IN  TransposedPairs(rhs, j - 1)
           \o [n \in 1..Len(cs) |-> <<cs[n], RefVal(rhs, cs[n], j - 1)>>]

\* transpose_yale: writes the transpose of rhs into the arrays of lhs; the set of outcomes
\* [ret, st].  A pair that does not fit the arrays is written past their end: the process
\* dies, or goes on with the pair lost
transpose_yale(rhs, lhs) ==
  LET n == lhs.rows
      pairs == TransposedPairs(rhs, n)
      fits(k) == k < lhs.capacity
      built == [lhs EXCEPT
                 !.ija = [k \in DOMAIN lhs.ija |->
                            IF k <= n THEN n + 1 + Len(TransposedPairs(rhs, k))
                            ELSE IF k - n <= Len(pairs) THEN pairs[k - n][1]
                            ELSE lhs.ija[k]],
                 !.a = [k \in DOMAIN lhs.a |->
                          IF k < n THEN (IF k < rhs.rows THEN rhs.a[k] ELSE lhs.a[k])
                          ELSE IF k = n THEN lhs.a[k]
                          ELSE IF k - n <= Len(pairs) THEN pairs[k - n][2]
                          ELSE lhs.a[k]]]
  IN  IF fits(n + Len(pairs)) THEN {[ret |-> "ok", st |-> built]}
      ELSE {[ret |-> "crash", st |-> None], [ret |-> "ok", st |-> built]}

\* nm_yale_storage_copy_transposed: the set of its outcomes [ret, st, capacity], capacity
\* being the capacity the result was created with
nm_yale_storage_copy_transposed(rhs) ==
  LET size == get_size(rhs)
      lhs == init(nm_yale_storage_create(rhs.cols, rhs.rows, size))
  IN  {[ret |-> o.ret, st |-> o.st, capacity |-> lhs.capacity] : o \in transpose_yale(rhs, lhs)}

(***************************************************************************)
(* TransSpec: a well-formed storage is copied transposed.                  *)
(***************************************************************************)
TransInit ==
  /\ pc = "tr"
  /\ \E shape \in BinShapes \cup {<<x[2], x[1]>> : x \in BinShapes} : s \in Operands(shape)
  /\ t = None
  /\ dense = <<>>
  /\ ret = "none"
  /\ hist = 0
  /\ inp = <<>>
  /\ out = <<>>

CopyTransposed ==
  /\ pc = "tr"
  /\ \E o \in nm_yale_storage_copy_transposed(s) :
       /\ out' = o
       /\ ret' = o.ret
  /\ pc' = "trdone"
  /\ UNCHANGED <<s, t, dense, hist, inp>>

TransNext == CopyTransposed

TransSpec == TransInit /\ [][TransNext]_vars

\* the off-diagonal entries a storage holds
StoredCount(st) == Sum([i \in 0..(st.rows - 1) |-> Cardinality(StoredCols(st, i))], 0..(st.rows - 1))

\* C29: nm_yale_storage_copy_transposed creates a result of shape (cols, rows) whose
\* capacity is at least cols + 1 + the number of off-diagonal entries stored in the source,
\* for every well-formed source, also with cols > rows, so that the transposed structure
\* fits the allocated arrays
C29_TransposedFits ==
  pc = "trdone" =>
    /\ out.capacity >= s.cols + 1 + StoredCount(s)
    /\ ret = "ok"


\* C30: in nm_yale_storage_ew_op with operands of different kinds and an arithmetic
\* operator, the index kind is read from a storage that exists, whichever of the operands
\* needed a cast copy, and every cast copy made is destroyed once before the result is
\* returned
C30_DispatchDereferences ==
  pc = "dispdone" /\ inp.ldtype # inp.rdtype /\ hist < NUM_NONCOMP_EWOPS =>
    /\ ~out.null
    /\ ret = "ok" => out.freed = out.made
====
